---- MODULE Spec2Model ----
(***************************************************************************)
(* rs1.py: a Streamlit page that downloads six months of daily closes for  *)
(* one symbol and shows RSI, SMA and MACD/Signal with an RSI status        *)
(* banner.  The script is run from the top on every widget change; a run   *)
(* reads the five sidebar sliders, calls yf.download, and, unless the      *)
(* frame is empty, computes the four indicator columns and renders.        *)
(*                                                                         *)
(* Numbers.  The script computes in IEEE doubles.  The model keeps every   *)
(* number exact: a value is NaN, an infinity, or a sign-magnitude rational *)
(* (so that the zero has a sign, as in IEEE; the sign decides the sign of  *)
(* x / 0).  Rounding is not modelled.                                      *)
(*                                                                         *)
(* Positions.  A pandas column is indexed from 0; a TLA+ sequence from 1.  *)
(* Row i of the script is element i + 1 of the model's sequences.          *)
(***************************************************************************)
EXTENDS Integers, Sequences, FiniteSets

VARIABLES rsi_period, sma_period, macd_short_period, macd_long_period,
          macd_signal_period, stock_data, current_rsi, rsi_status, shown, pc

vars == <<rsi_period, sma_period, macd_short_period, macd_long_period,
          macd_signal_period, stock_data, current_rsi, rsi_status, shown, pc>>

(***************************************************************************)
(* Bounds of the exploration.  A downloaded frame has at most MaxLen rows  *)
(* and every close is one of 1 .. MaxPrice.  Where an indicator function   *)
(* is explored on its own, its period also ranges over 1 .. MaxPeriod, so  *)
(* that frames of MaxLen rows hold rows before, at and after the period.   *)
(***************************************************************************)
MaxLen == 5
MaxPrice == 2
MaxPeriod == 3
\* the status is explored on every multiple of 1 / ProbeDen in 0 .. 100
ProbeDen == 4

(***************************************************************************)
(* Exact arithmetic on the values of a float64 column.                     *)
(***************************************************************************)
RECURSIVE Gcd(_, _)
Gcd(a, b) == IF b = 0 THEN a ELSE Gcd(b, a % b)

NaN == [k |-> "nan", s |-> 1, n |-> 0, d |-> 1]
Inf(sg) == [k |-> "inf", s |-> sg, n |-> 1, d |-> 1]

\* the finite value sg * n / d  (n >= 0, d > 0), in lowest terms
Fin(sg, n, d) ==
    LET g == Gcd(n, d)
    IN  [k |-> "q", s |-> sg, n |-> n \div g, d |-> d \div g]

Num(x) == IF x < 0 THEN Fin(-1, -x, 1) ELSE Fin(1, x, 1)
Frac(x, y) == Fin(1, x, y)

IsNaN(a) == a.k = "nan"
IsZero(a) == a.k = "q" /\ a.n = 0

FNeg(a) == IF IsNaN(a) THEN NaN ELSE [a EXCEPT !.s = -a.s]

FAdd(a, b) ==
    IF IsNaN(a) \/ IsNaN(b) THEN NaN
    ELSE IF a.k = "inf" /\ b.k = "inf" THEN (IF a.s = b.s THEN a ELSE NaN)
    ELSE IF a.k = "inf" THEN a
    ELSE IF b.k = "inf" THEN b
    ELSE LET l == (a.d \div Gcd(a.d, b.d)) * b.d
             m == a.s * a.n * (l \div a.d) + b.s * b.n * (l \div b.d)
         IN  IF m = 0
             THEN Fin(IF a.s = -1 /\ b.s = -1 THEN -1 ELSE 1, 0, 1)
             ELSE IF m < 0 THEN Fin(-1, -m, l) ELSE Fin(1, m, l)

FSub(a, b) == FAdd(a, FNeg(b))

FMul(a, b) ==
    IF IsNaN(a) \/ IsNaN(b) THEN NaN
    ELSE IF a.k = "inf" \/ b.k = "inf"
         THEN (IF IsZero(a) \/ IsZero(b) THEN NaN ELSE Inf(a.s * b.s))
    ELSE LET g1 == Gcd(a.n, b.d)
             g2 == Gcd(b.n, a.d)
         IN  [k |-> "q", s |-> a.s * b.s,
              n |-> (a.n \div g1) * (b.n \div g2),
              d |-> (a.d \div g2) * (b.d \div g1)]

FDiv(a, b) ==
    IF IsNaN(a) \/ IsNaN(b) THEN NaN
    ELSE IF a.k = "inf" THEN (IF b.k = "inf" THEN NaN ELSE Inf(a.s * b.s))
    ELSE IF b.k = "inf" THEN Fin(a.s * b.s, 0, 1)
    ELSE IF b.n = 0 THEN (IF a.n = 0 THEN NaN ELSE Inf(a.s * b.s))
    ELSE FMul(a, [k |-> "q", s |-> b.s, n |-> b.d, d |-> b.n])

\* the comparisons of IEEE: false on NaN, -0.0 equal to 0.0
FLt(a, b) ==
    /\ ~IsNaN(a) /\ ~IsNaN(b)
    /\ IF a.k = "inf" THEN a.s = -1 /\ ~(b.k = "inf" /\ b.s = -1)
       ELSE IF b.k = "inf" THEN b.s = 1
       ELSE a.s * a.n * b.d < b.s * b.n * a.d
FGt(a, b) == FLt(b, a)
\* values are kept in lowest terms, so two finite values are equal when they
\* are both zero (of either sign) or the same sign, numerator and denominator
FEq(a, b) ==
    /\ ~IsNaN(a) /\ ~IsNaN(b)
    /\ \/ IsZero(a) /\ IsZero(b)
       \/ a = b
FLe(a, b) == FLt(a, b) \/ FEq(a, b)
FGe(a, b) == FLe(b, a)

(***************************************************************************)
(* The pandas operations the script calls, on a column given as a sequence *)
(* of values.                                                              *)
(***************************************************************************)
\* a column as an explicit sequence of its rows
ColOf(f) == f \o << >>

\* Series.diff(1): the first row has no predecessor and is NaN
diff(col) ==
    ColOf([i \in 1..Len(col) |-> IF i = 1 THEN NaN ELSE FSub(col[i], col[i - 1])])

\* Series.clip(lower=lo): a row is kept when it is NaN or >= lo, else it is lo
clip_lower(col, lo) ==
    ColOf([i \in 1..Len(col) |->
              IF IsNaN(col[i]) \/ FGe(col[i], lo) THEN col[i] ELSE lo])

\* Series.clip(upper=hi): a row is kept when it is NaN or <= hi, else it is hi
clip_upper(col, hi) ==
    ColOf([i \in 1..Len(col) |->
              IF IsNaN(col[i]) \/ FLe(col[i], hi) THEN col[i] ELSE hi])

neg(col) == ColOf([i \in 1..Len(col) |-> FNeg(col[i])])

\* ewm(span=...) and ewm(alpha=...) both reduce to a centre of mass, from
\* which the smoothing factor is alpha = 1 / (1 + com)
com_of_span(span) == FDiv(Num(span - 1), Num(2))
com_of_alpha(alpha) == FDiv(FSub(Num(1), alpha), alpha)

\* One row of ewm(adjust=False, ignore_na=False).mean(): st is the running
\* weighted mean, the weight of the history and the number of observations.
ewm_step(st, cur, old_wt_factor, new_wt) ==
    LET is_observation == ~IsNaN(cur)
        nobs == st.nobs + (IF is_observation THEN 1 ELSE 0)
        old_wt == FMul(st.old_wt, old_wt_factor)
    IN  IF ~IsNaN(st.weighted)
        THEN IF is_observation
             THEN [weighted |->
                      IF ~FEq(st.weighted, cur)
                      THEN FDiv(FAdd(FMul(old_wt, st.weighted), FMul(new_wt, cur)),
                                FAdd(old_wt, new_wt))
                      ELSE st.weighted,
                   old_wt |-> Num(1), nobs |-> nobs]
             ELSE [weighted |-> st.weighted, old_wt |-> old_wt, nobs |-> nobs]
        ELSE IF is_observation
             THEN [weighted |-> cur, old_wt |-> st.old_wt, nobs |-> nobs]
             ELSE [weighted |-> st.weighted, old_wt |-> st.old_wt, nobs |-> nobs]

\* the rows from i on, given the state st left by the rows before i
RECURSIVE ewm_rows(_, _, _, _, _)
ewm_rows(col, old_wt_factor, new_wt, st, i) ==
    IF i > Len(col) THEN << >>
    ELSE LET st1 == IF i = 1
                    THEN [weighted |-> col[1], old_wt |-> Num(1),
                          nobs |-> IF IsNaN(col[1]) THEN 0 ELSE 1]
                    ELSE ewm_step(st, col[i], old_wt_factor, new_wt)
         IN  <<st1>> \o ewm_rows(col, old_wt_factor, new_wt, st1, i + 1)

\* ewm(com, adjust=False).mean() with the default min_periods=0, which the
\* library raises to 1: a row is NaN until the first observation
ewm_mean(col, com) ==
    LET alpha == FDiv(Num(1), FAdd(Num(1), com))
        rows == ewm_rows(col, FSub(Num(1), alpha), alpha,
                         [weighted |-> NaN, old_wt |-> Num(1), nobs |-> 0], 1)
    IN  ColOf([i \in 1..Len(col) |->
                  IF rows[i].nobs >= 1 THEN rows[i].weighted ELSE NaN])

\* rolling(window).mean(): the window slides by removing the row that leaves
\* and adding the row that enters
roll_step(st, col, window, i) ==
    LET out == i - window
        removed == IF out >= 1 /\ ~IsNaN(col[out])
                   THEN [nobs |-> st.nobs - 1, sum_x |-> FSub(st.sum_x, col[out])]
                   ELSE st
    IN  IF ~IsNaN(col[i])
        THEN [nobs |-> removed.nobs + 1, sum_x |-> FAdd(removed.sum_x, col[i])]
        ELSE removed

RECURSIVE roll_rows(_, _, _, _)
roll_rows(col, window, st, i) ==
    IF i > Len(col) THEN << >>
    ELSE LET st1 == roll_step(st, col, window, i)
         IN  <<st1>> \o roll_rows(col, window, st1, i + 1)

\* min_periods defaults to the window: a row with fewer observations is NaN
\* variant: rolling(window, min_periods=1), which averages partial windows
rolling_mean_partial(col, window) ==
    LET rows == roll_rows(col, window, [nobs |-> 0, sum_x |-> Num(0)], 1)
    IN  ColOf([i \in 1..Len(col) |->
                  IF rows[i].nobs >= 1
                  THEN FDiv(rows[i].sum_x, Num(rows[i].nobs))
                  ELSE NaN])

rolling_mean(col, window) ==
    LET rows == roll_rows(col, window, [nobs |-> 0, sum_x |-> Num(0)], 1)
    IN  ColOf([i \in 1..Len(col) |->
                  IF rows[i].nobs >= window /\ rows[i].nobs > 0
                  THEN FDiv(rows[i].sum_x, Num(rows[i].nobs))
                  ELSE NaN])

(***************************************************************************)
(* The script's own definitions.                                           *)
(***************************************************************************)
\* The positions of each sidebar slider that the exploration visits.  Each
\* set lies inside the slider's min_value .. max_value.
RsiPeriods == {7, 8}
SmaPeriods == {5, 6}
MacdShortPeriods == {5, 23}
MacdLongPeriods == {23, 47}
MacdSignalPeriods == {5, 7}

\* what yf.download may return: a frame of no row at all, or of up to MaxLen
\* daily closes
Downloads ==
    {[Close |-> ColOf([i \in 1..Len(c) |-> Num(c[i])])] :
        c \in UNION {[1..l -> 1..MaxPrice] : l \in 0..MaxLen}}

\* stock_data.empty
empty(data) == Len(data.Close) = 0

rsi_delta(data) == diff(data.Close)
rsi_gain(data) == clip_lower(rsi_delta(data), Num(0))
rsi_loss(data) == neg(clip_upper(rsi_delta(data), Num(0)))
\* variant: gain.ewm(span=period, adjust=False), alpha = 2 / (period + 1)
rsi_avg_gain_span(data, period) ==
    ewm_mean(rsi_gain(data), com_of_span(period))

rsi_avg_gain(data, period) ==
    ewm_mean(rsi_gain(data), com_of_alpha(FDiv(Num(1), Num(period))))
rsi_avg_loss(data, period) ==
    ewm_mean(rsi_loss(data), com_of_alpha(FDiv(Num(1), Num(period))))

\* variant: rsi = 100 - (100 / rs), the "1 +" dropped
calculate_rsi_no_unit(data, period) ==
    LET avg_gain == rsi_avg_gain(data, period)
        avg_loss == rsi_avg_loss(data, period)
        rs == ColOf([i \in 1..Len(data.Close) |-> FDiv(avg_gain[i], avg_loss[i])])
    IN  ColOf([i \in 1..Len(data.Close) |->
                  FSub(Num(100), FDiv(Num(100), rs[i]))])

\* variant: the rows before row `period` blanked, rsi.iloc[:period] = NaN
calculate_rsi_warmup(data, period) ==
    LET avg_gain == rsi_avg_gain(data, period)
        avg_loss == rsi_avg_loss(data, period)
        rs == ColOf([i \in 1..Len(data.Close) |-> FDiv(avg_gain[i], avg_loss[i])])
    IN  ColOf([i \in 1..Len(data.Close) |->
                  IF i <= period THEN NaN
                  ELSE FSub(Num(100), FDiv(Num(100), FAdd(Num(1), rs[i])))])

\* variant: rs = avg_gain / avg_loss.replace(0, NaN), no division by zero
calculate_rsi_guarded(data, period) ==
    LET avg_gain == rsi_avg_gain(data, period)
        avg_loss == rsi_avg_loss(data, period)
        rs == ColOf([i \in 1..Len(data.Close) |->
                        IF IsZero(avg_loss[i]) THEN NaN
                        ELSE FDiv(avg_gain[i], avg_loss[i])])
    IN  ColOf([i \in 1..Len(data.Close) |->
                  FSub(Num(100), FDiv(Num(100), FAdd(Num(1), rs[i])))])

calculate_rsi(data, period) ==
    LET avg_gain == rsi_avg_gain(data, period)
        avg_loss == rsi_avg_loss(data, period)
        rs == ColOf([i \in 1..Len(data.Close) |-> FDiv(avg_gain[i], avg_loss[i])])
    IN  ColOf([i \in 1..Len(data.Close) |->
                  FSub(Num(100), FDiv(Num(100), FAdd(Num(1), rs[i])))])

macd_short_ema(data, short_period) ==
    ewm_mean(data.Close, com_of_span(short_period))
macd_long_ema(data, long_period) ==
    ewm_mean(data.Close, com_of_span(long_period))

\* variant: macd blanked until the long window has filled,
\* macd.iloc[:long_period - 1] = NaN
calculate_macd_warmup(data, short_period, long_period, signal_period) ==
    LET short_ema == macd_short_ema(data, short_period)
        long_ema == macd_long_ema(data, long_period)
        macd == ColOf([i \in 1..Len(data.Close) |->
                          IF i < long_period THEN NaN
                          ELSE FSub(short_ema[i], long_ema[i])])
        signal == ewm_mean(macd, com_of_span(signal_period))
    IN  <<macd, signal>>

\* returns the pair (macd, signal)
calculate_macd(data, short_period, long_period, signal_period) ==
    LET short_ema == macd_short_ema(data, short_period)
        long_ema == macd_long_ema(data, long_period)
        macd == ColOf([i \in 1..Len(data.Close) |-> FSub(short_ema[i], long_ema[i])])
        signal == ewm_mean(macd, com_of_span(signal_period))
    IN  <<macd, signal>>

calculate_sma(data, period) == rolling_mean(data.Close, period)

\* variant: the thresholds taken inclusively, >= 70 and <= 30
rsi_status_of_inclusive(rsi) ==
    IF FGe(rsi, Num(70)) THEN "Overbought"
    ELSE IF FLe(rsi, Num(30)) THEN "Oversold"
    ELSE "Neutral"

rsi_status_of(rsi) ==
    IF FGt(rsi, Num(70)) THEN "Overbought"
    ELSE IF FLt(rsi, Num(30)) THEN "Oversold"
    ELSE "Neutral"

\* the alert under the charts
alert_of(status) ==
    IF status = "Overbought" THEN {"warning"}
    ELSE IF status = "Oversold" THEN {"success"}
    ELSE {}

\* a name that has not been assigned in the current run
Unset == [k |-> "unset", s |-> 1, n |-> 0, d |-> 1]

(***************************************************************************)
(* The page.  pc = "download": a run of the script has read the widgets    *)
(* and is in yf.download.  pc = "done": the run has finished and the page  *)
(* shows the elements in `shown`.  A run starts with the sliders wherever  *)
(* the user has left them.                                                 *)
(***************************************************************************)
Init ==
    /\ rsi_period \in RsiPeriods
    /\ sma_period \in SmaPeriods
    /\ macd_short_period \in MacdShortPeriods
    /\ macd_long_period \in MacdLongPeriods
    /\ macd_signal_period \in MacdSignalPeriods
    /\ stock_data = << >>
    /\ current_rsi = Unset
    /\ rsi_status = "unset"
    /\ shown = {}
    /\ pc = "download"

\* a widget changed: the script starts again from the top with nothing computed
Rerun ==
    /\ stock_data' = << >>
    /\ current_rsi' = Unset
    /\ rsi_status' = "unset"
    /\ shown' = {}
    /\ pc' = "download"

SetRsiPeriod ==
    /\ \E v \in RsiPeriods \ {rsi_period} : rsi_period' = v
    /\ Rerun
    /\ UNCHANGED <<sma_period, macd_short_period, macd_long_period, macd_signal_period>>

SetSmaPeriod ==
    /\ \E v \in SmaPeriods \ {sma_period} : sma_period' = v
    /\ Rerun
    /\ UNCHANGED <<rsi_period, macd_short_period, macd_long_period, macd_signal_period>>

SetMacdShortPeriod ==
    /\ \E v \in MacdShortPeriods \ {macd_short_period} : macd_short_period' = v
    /\ Rerun
    /\ UNCHANGED <<rsi_period, sma_period, macd_long_period, macd_signal_period>>

SetMacdLongPeriod ==
    /\ \E v \in MacdLongPeriods \ {macd_long_period} : macd_long_period' = v
    /\ Rerun
    /\ UNCHANGED <<rsi_period, sma_period, macd_short_period, macd_signal_period>>

SetMacdSignalPeriod ==
    /\ \E v \in MacdSignalPeriods \ {macd_signal_period} : macd_signal_period' = v
    /\ Rerun
    /\ UNCHANGED <<rsi_period, sma_period, macd_short_period, macd_long_period>>

\* The banner, the RSI chart and the alert, from the RSI column.
Banner(RSI) ==
    /\ current_rsi' = RSI[Len(RSI)]
    /\ rsi_status' = rsi_status_of(RSI[Len(RSI)])
    /\ shown' = {"info-box", "fig_rsi", "fig_macd", "fig_price"}
                \cup alert_of(rsi_status_of(RSI[Len(RSI)]))

\* yf.download returns `data`; the rest of the script runs to its end.  (The
\* bound names RSI, SMA, MS hold each column, computed once.)
MainLogic(data) ==
    /\ pc' = "done"
    /\ IF empty(data)
       THEN /\ stock_data' = data
            /\ shown' = {"error"}
            /\ UNCHANGED <<current_rsi, rsi_status>>
       ELSE \E RSI \in {calculate_rsi(data, rsi_period)},
               SMA \in {calculate_sma(data, sma_period)},
               MS \in {calculate_macd(data, macd_short_period, macd_long_period,
                                      macd_signal_period)} :
            /\ stock_data' = [Close |-> data.Close, RSI |-> RSI, SMA |-> SMA,
                              MACD |-> MS[1], Signal |-> MS[2]]
            /\ Banner(RSI)
    /\ UNCHANGED <<rsi_period, sma_period, macd_short_period, macd_long_period,
                   macd_signal_period>>

Download ==
    /\ pc = "download"
    /\ \E data \in Downloads : MainLogic(data)

Next ==
    \/ Download
    \/ SetRsiPeriod
    \/ SetSmaPeriod
    \/ SetMacdShortPeriod
    \/ SetMacdLongPeriod
    \/ SetMacdSignalPeriod

Spec == Init /\ [][Next]_vars

(***************************************************************************)
(* calculate_rsi and the status on their own.  The function takes any      *)
(* period, not only a slider position: it is applied here to every         *)
(* non-empty frame and to the periods 1 .. MaxPeriod as well as to the     *)
(* slider positions.  pc = "rsi": the frame is there and line 110 is next. *)
(***************************************************************************)
RsiArgs == (1..MaxPeriod) \cup RsiPeriods

\* frames that rise by the same step every day, up to two rows longer than
\* the other frames
Ramps ==
    {[Close |-> ColOf([i \in 1..l |-> Num(a + i * b)])] :
        a \in 0..MaxPrice, b \in 1..MaxPrice, l \in 2..(MaxLen + 2)}

InitRsi ==
    /\ rsi_period \in RsiArgs
    /\ sma_period = 20
    /\ macd_short_period = 12
    /\ macd_long_period = 26
    /\ macd_signal_period = 9
    /\ stock_data \in {d \in Downloads : ~empty(d)} \cup Ramps
    /\ current_rsi = Unset
    /\ rsi_status = "unset"
    /\ shown = {}
    /\ pc = "rsi"

ApplyRsi ==
    /\ pc = "rsi"
    /\ pc' = "done"
    /\ \E RSI \in {calculate_rsi(stock_data, rsi_period)} :
            /\ stock_data' = [Close |-> stock_data.Close, RSI |-> RSI]
            /\ Banner(RSI)
    /\ UNCHANGED <<rsi_period, sma_period, macd_short_period, macd_long_period,
                   macd_signal_period>>

SpecRsi == InitRsi /\ [][ApplyRsi]_vars

(***************************************************************************)
(* calculate_sma on its own, in the same way.  pc = "sma": line 111 is     *)
(* next.                                                                   *)
(***************************************************************************)
SmaArgs == (1..MaxPeriod) \cup SmaPeriods

InitSma ==
    /\ rsi_period = 14
    /\ sma_period \in SmaArgs
    /\ macd_short_period = 12
    /\ macd_long_period = 26
    /\ macd_signal_period = 9
    /\ stock_data \in {d \in Downloads : ~empty(d)}
    /\ current_rsi = Unset
    /\ rsi_status = "unset"
    /\ shown = {}
    /\ pc = "sma"

ApplySma ==
    /\ pc = "sma"
    /\ pc' = "done"
    /\ stock_data' = [Close |-> stock_data.Close,
                      SMA |-> calculate_sma(stock_data, sma_period)]
    /\ UNCHANGED <<rsi_period, sma_period, macd_short_period, macd_long_period,
                   macd_signal_period, current_rsi, rsi_status, shown>>

SpecSma == InitSma /\ [][ApplySma]_vars

(***************************************************************************)
(* The status on its own (lines 114 to 126 and 152 to 156), from every     *)
(* value the last row of the RSI column is given here: NaN and every       *)
(* multiple of 1 / ProbeDen from 0 to 100, the two thresholds among them.  *)
(* pc = "status": the RSI column is there and line 114 is next.            *)
(***************************************************************************)
Probes == {NaN} \cup {Frac(x, ProbeDen) : x \in 0..(100 * ProbeDen)}

InitStatus ==
    /\ rsi_period = 14
    /\ sma_period = 20
    /\ macd_short_period = 12
    /\ macd_long_period = 26
    /\ macd_signal_period = 9
    /\ stock_data \in {[RSI |-> <<v>>] : v \in Probes}
    /\ current_rsi = Unset
    /\ rsi_status = "unset"
    /\ shown = {}
    /\ pc = "status"

ApplyStatus ==
    /\ pc = "status"
    /\ pc' = "done"
    /\ Banner(stock_data.RSI)
    /\ UNCHANGED <<rsi_period, sma_period, macd_short_period, macd_long_period,
                   macd_signal_period, stock_data>>

SpecStatus == InitStatus /\ [][ApplyStatus]_vars

(***************************************************************************)
(* Properties.  Row i of the script is element i + 1 here, so "i < p" of   *)
(* the script reads "i <= p" on the model's positions and the seed row p   *)
(* is element p + 1.                                                       *)
(***************************************************************************)
Rows == 1..Len(stock_data.Close)
HasColumn(c) == pc = "done" /\ c \in DOMAIN stock_data

\* v is a number with lo <= v <= hi, by cross-multiplication
Between(v, lo, hi) ==
    /\ v.k = "q"
    /\ lo * v.d <= v.s * v.n
    /\ v.s * v.n <= hi * v.d

Flat(upto) == \A j \in 2..upto : stock_data.Close[j] = stock_data.Close[j - 1]
Increasing == \A j \in 2..Len(stock_data.Close) :
                  FLt(stock_data.Close[j - 1], stock_data.Close[j])

RECURSIVE SumOf(_, _, _)
SumOf(col, from, to) ==
    IF from > to THEN Num(0) ELSE FAdd(col[from], SumOf(col, from + 1, to))

\* C1: the status is Overbought exactly when the latest RSI is > 70, Oversold
\* exactly when it is < 30, and Neutral for every other value, 70 and 30
\* themselves included.
C1_StrictThresholds ==
    pc = "done" =>
        /\ rsi_status \in {"Overbought", "Oversold", "Neutral"}
        /\ rsi_status = "Overbought" <=>
               (current_rsi.k = "q" /\ current_rsi.s * current_rsi.n > 70 * current_rsi.d)
        /\ rsi_status = "Oversold" <=>
               (current_rsi.k = "q" /\ current_rsi.s * current_rsi.n < 30 * current_rsi.d)
        /\ current_rsi \in {Num(70), Num(30)} => rsi_status = "Neutral"

C1_Witness == pc = "done" /\ current_rsi = Num(70) /\ rsi_status = "Neutral"

\* C2: every row of the RSI column that holds a value holds one in [0, 100].
C2_RsiInRange ==
    HasColumn("RSI") =>
        \A i \in Rows : IsNaN(stock_data.RSI[i]) \/ Between(stock_data.RSI[i], 0, 100)

C2_Witness ==
    /\ HasColumn("RSI")
    /\ Len(stock_data.Close) >= 2
    /\ \E i \in Rows : /\ Between(stock_data.RSI[i], 1, 99)
                       /\ stock_data.RSI[i].d > 1

Moved(i) ==
    IF rsi_period = 1
    THEN stock_data.Close[i] # stock_data.Close[i - 1]
    ELSE ~Flat(i)

C4_RejectsShortNotBelowLong ==
    (pc = "done" /\ ~empty(stock_data) /\ macd_short_period >= macd_long_period) =>
        /\ "MACD" \notin DOMAIN stock_data
        /\ "Signal" \notin DOMAIN stock_data
        /\ "fig_macd" \notin shown

\* C5: when no row of the RSI column holds a value, no status is produced and
\* no banner is shown.
C5_NoStatusWithoutRsi ==
    (HasColumn("RSI") /\ \A i \in Rows : IsNaN(stock_data.RSI[i])) =>
        /\ rsi_status \notin {"Overbought", "Oversold", "Neutral"}
        /\ "info-box" \notin shown

\* C6: on a flat frame the RSI is exactly 50 at every row from the seed row p on.
C6_FlatIsFifty ==
    (HasColumn("RSI") /\ Flat(Len(stock_data.Close))) =>
        \A i \in Rows : i > rsi_period => stock_data.RSI[i] = Num(50)

\* C7: wherever the average loss is 0 and the average gain is positive the RSI
\* is exactly 100; so on strictly increasing closes every row after the first
\* is 100.
C7_PureGainIsHundred ==
    HasColumn("RSI") =>
        LET avg_gain == rsi_avg_gain(stock_data, rsi_period)
            avg_loss == rsi_avg_loss(stock_data, rsi_period)
        IN  /\ \A i \in Rows :
                   (IsZero(avg_loss[i]) /\ avg_gain[i].k = "q" /\ avg_gain[i].n > 0)
                       => stock_data.RSI[i] = Num(100)
            /\ Increasing => \A i \in Rows \ {1} : stock_data.RSI[i] = Num(100)

C7_Witness ==
    /\ HasColumn("RSI")
    /\ Len(stock_data.Close) > MaxLen
    /\ rsi_period < Len(stock_data.Close)
    /\ Increasing
    /\ stock_data.RSI[Len(stock_data.Close)] = Num(100)

\* C8: the SMA column has one row per close; a row holds a value exactly from
\* row p - 1 on, and the value is the mean of the p closes ending at that row.
C8_SmaFullWindowsOnly ==
    HasColumn("SMA") =>
        /\ Len(stock_data.SMA) = Len(stock_data.Close)
        /\ \A i \in Rows :
               IF i >= sma_period
               THEN FEq(FMul(stock_data.SMA[i], Num(sma_period)),
                        SumOf(stock_data.Close, i - sma_period + 1, i))
               ELSE IsNaN(stock_data.SMA[i])

C8_Witness ==
    /\ HasColumn("SMA")
    /\ sma_period >= 2
    /\ Len(stock_data.Close) > sma_period
    /\ IsNaN(stock_data.SMA[sma_period - 1])
    /\ stock_data.SMA[sma_period] # stock_data.SMA[sma_period + 1]

\* the recurrence ema[i] = input[i] * k + ema[i-1] * (1 - k), k = 2 / (period + 1),
\* seeded with ema[0] = input[0]
IsEma(ema, input, period) ==
    LET k == Frac(2, period + 1)
    IN  /\ Len(ema) = Len(input)
        /\ \A i \in 1..Len(input) :
               /\ ema[i].k = "q"
               /\ IF i = 1 THEN FEq(ema[1], input[1])
                  ELSE FEq(ema[i], FAdd(FMul(input[i], k),
                                        FMul(ema[i - 1], FSub(Num(1), k))))

\* C9: MACD and Signal hold a number at every row from row 0; the two EMAs of
\* the closes follow the seeded recurrence, MACD is their difference, Signal
\* is the same EMA of MACD, and both are 0 at row 0.
C9_MacdDefinedFromRowZero ==
    HasColumn("MACD") =>
        LET short_ema == macd_short_ema(stock_data, macd_short_period)
            long_ema == macd_long_ema(stock_data, macd_long_period)
        IN  /\ IsEma(short_ema, stock_data.Close, macd_short_period)
            /\ IsEma(long_ema, stock_data.Close, macd_long_period)
            /\ Len(stock_data.MACD) = Len(stock_data.Close)
            /\ \A i \in Rows :
                   FEq(stock_data.MACD[i], FSub(short_ema[i], long_ema[i]))
            /\ IsEma(stock_data.Signal, stock_data.MACD, macd_signal_period)
            /\ IsZero(stock_data.MACD[1])
            /\ IsZero(stock_data.Signal[1])

C9_Witness ==
    /\ HasColumn("MACD")
    /\ macd_short_period < macd_long_period
    /\ Len(stock_data.Close) >= 3
    /\ ~IsZero(stock_data.MACD[2])
    /\ ~IsZero(stock_data.Signal[3])
    /\ stock_data.Signal[3] # stock_data.MACD[3]

\* avg is the Wilder recurrence on val from row `from` on:
\* avg[i] = (avg[i-1] * (p - 1) + val[i]) / p
WilderFrom(avg, val, p, from) ==
    \A i \in Rows : i >= from =>
        FEq(FMul(avg[i], Num(p)), FAdd(FMul(avg[i - 1], Num(p - 1)), val[i]))

====
